---- MODULE Spec2Model ----
(***************************************************************************)
(* A model of src/Practical.py: the ExpenseTracker ledger (self.df), its   *)
(* backing CSV store (self.file_path) and the operations load_data,        *)
(* add_expense, get_summary, filter_expenses, generate_report and          *)
(* visualize_expenses.                                                     *)
(*                                                                         *)
(* Values.  A parsed date is an integer yyyymmdd, or NaT (what             *)
(* pd.to_datetime gives for an empty or missing cell).  An amount is an    *)
(* integer number of currency units, or NaN (what float("nan") and an      *)
(* empty CSV cell give).  Raw inputs and CSV cells are strings.            *)
(***************************************************************************)
EXTENDS Integers, Sequences, FiniteSets, TLC

VARIABLES store, df, pc, out, rt

vars == <<store, df, pc, out, rt>>

\* ---------------------------------------------------------------- bounds

\* The ledger holds at most MaxRows records (add_expense is not tried beyond).
MaxRows == 2

\* The store found at start-up holds at most MaxStoreRows rows.
MaxStoreRows == 1

\* ------------------------------------------------------- program constants

\* self.categories
categories == <<"Food", "Transport", "Utilities", "Entertainment">>

CategorySet == {categories[i] : i \in 1..Len(categories)}

\* pd.NaT, the missing timestamp
NaT == 0

\* float("nan"), the missing number
NaN == -999999

\* a missing (float nan) cell of the Description column after read_csv
DescNaN == "<nan>"

NoDescription == "No description"

\* ------------------------------------------------------------ raw inputs

\* what a user types at the prompts of choice 1 (ledger runs)
DateInputs == {"2024-01-15", "", "notadate"}

AmountInputs == {"10", "0", "abc"}

CategoryInputs == {"Food", "Pets"}

DescriptionInputs == {"", " ", "NA"}

\* what a user types at the prompts of choice 3 (ledger runs); "" is Enter
CategoryFilters == {"", "Food"}

StartFilters == {""}

EndFilters == {"", "notadate"}

MinFilters == {"", "abc"}

\* what a user types at the prompts of choice 1 (query runs)
QDateInputs == {"2024-01-15", "2024-02-10"}

QAmountInputs == {"10", "20"}

QCategoryInputs == {"Food", "Transport"}

QDescriptionInputs == {""}

\* what a user types at the prompts of choice 3 (query runs)
QCategoryFilters == {"", "Food"}

QStartFilters == {"", "2024-02-10", "notadate"}

QEndFilters == {"", "2024-01-15", "2024-02-10", "notadate"}

QMinFilters == {"", "20", "abc"}

\* ------------------------------------------------------------ conversions

\* pd.to_datetime(s) raises ValueError
DateRaises(s) == s \notin {"2024-01-15", "2024-02-10", ""}

\* pd.to_datetime(s), for a string it accepts; the empty string gives NaT
ToDatetime(s) ==
  CASE s = "2024-01-15" -> 20240115
    [] s = "2024-02-10" -> 20240210
    [] s = ""           -> NaT

\* float(s) raises ValueError
FloatRaises(s) == s \notin {"10", "10.0", "20", "20.0", "0", "-5", "-5.0", "nan"}

\* float(s), for a string it accepts; "nan" gives NaN
Float(s) ==
  CASE s = "10"   -> 10
    [] s = "10.0" -> 10
    [] s = "20"   -> 20
    [] s = "20.0" -> 20
    [] s = "0"    -> 0
    [] s = "-5"   -> -5
    [] s = "-5.0" -> -5
    [] s = "nan"  -> NaN

\* a <= b on floats: every comparison with NaN is false
FloatLe(a, b) == a # NaN /\ b # NaN /\ a <= b

\* a > b on floats
FloatGt(a, b) == a # NaN /\ b # NaN /\ a > b

\* a >= b on floats
FloatGe(a, b) == a # NaN /\ b # NaN /\ a >= b

\* a >= b on timestamps: every comparison with NaT is false
DateGe(a, b) == a # NaT /\ b # NaT /\ a >= b

\* a <= b on timestamps
DateLe(a, b) == a # NaT /\ b # NaT /\ a <= b

\* two decimal digits
TwoDigits(n) ==
  LET digit == <<"0", "1", "2", "3", "4", "5", "6", "7", "8", "9">>
  IN  digit[(n \div 10) + 1] \o digit[(n % 10) + 1]

\* to_csv of a Date cell: ISO yyyy-mm-dd, empty for NaT
FormatDate(d) ==
  IF d = NaT THEN ""
  ELSE TwoDigits(d \div 1000000) \o TwoDigits((d \div 10000) % 100) \o "-"
       \o TwoDigits((d \div 100) % 100) \o "-" \o TwoDigits(d % 100)

\* to_csv of an Amount cell: repr of the float, empty for NaN
FormatFloat(a) ==
  IF a = NaN THEN ""
  ELSE IF a = 10 THEN "10.0"
  ELSE IF a = 20 THEN "20.0"
  ELSE IF a = -5 THEN "-5.0"
  ELSE "0.0"

\* to_csv of a Description cell: empty for a missing value
FormatDescription(s) == IF s = DescNaN THEN "" ELSE s

\* to_csv of one record
CsvRow(r) ==
  [Date        |-> FormatDate(r.Date),
   Amount      |-> FormatFloat(r.Amount),
   Category    |-> r.Category,
   Description |-> FormatDescription(r.Description)]

\* df.to_csv(index=False): every record, in order
ToCsv(frame) == [i \in 1..Len(frame) |-> CsvRow(frame[i])]

\* read_csv of a text cell: the default NA strings become missing values
ReadText(s) == IF s \in {"", "NA"} THEN DescNaN ELSE s

\* read_csv of an Amount cell: an empty cell is NaN
ReadFloat(s) == IF s = "" THEN NaN ELSE Float(s)

\* read_csv cannot give a numeric Amount column of this cell
AmountCellBad(s) == s # "" /\ FloatRaises(s)

\* pd.read_csv followed by pd.to_datetime of the Date column, for one row
ParseRow(row) ==
  [Date        |-> ToDatetime(row.Date),
   Amount      |-> ReadFloat(row.Amount),
   Category    |-> ReadText(row.Category),
   Description |-> ReadText(row.Description)]

\* load_data raises something other than FileNotFoundError on these rows
LoadRaises(rows) ==
  \E i \in 1..Len(rows) : DateRaises(rows[i].Date) \/ AmountCellBad(rows[i].Amount)

\* the row filter of load_data
ValidRow(r) ==
  FloatGt(r.Amount, 0) /\ r.Category \in CategorySet

\* the frame load_data leaves in self.df for a store that parses
LoadedFrame(rows) ==
  SelectSeq([i \in 1..Len(rows) |-> ParseRow(rows[i])], ValidRow)

\* ------------------------------------------------------------------ state

\* rows a store found at start-up may hold: a valid row, a row with a
\* non-positive amount, one with an unknown category, one with empty date and
\* description cells, one with an empty amount cell, one whose date does not parse
StoreRows ==
  { [Date |-> "2024-01-15", Amount |-> "10.0", Category |-> "Food",
     Description |-> "No description"],
    [Date |-> "2024-01-15", Amount |-> "-5.0", Category |-> "Food",
     Description |-> "No description"],
    [Date |-> "2024-01-15", Amount |-> "10.0", Category |-> "Pets",
     Description |-> "No description"],
    [Date |-> "", Amount |-> "10.0", Category |-> "Food", Description |-> ""],
    [Date |-> "2024-01-15", Amount |-> "", Category |-> "Food",
     Description |-> "No description"],
    [Date |-> "notadate", Amount |-> "10.0", Category |-> "Food",
     Description |-> "No description"] }

BoundedSeq(S, n) == UNION { [1..k -> S] : k \in 0..n }

NoFile == [exists |-> FALSE, rows |-> <<>>]

File(rows) == [exists |-> TRUE, rows |-> rows]

InitStores == {NoFile} \cup { File(rows) : rows \in BoundedSeq(StoreRows, MaxStoreRows) }

\* what the last operation printed or raised, the values it showed, and the
\* arguments it was called with
Out(op, msg) ==
  [op |-> op, msg |-> msg, args |-> <<>>, removed |-> 0, rows |-> <<>>,
   total |-> 0, mean |-> <<0, 0>>, cats |-> <<>>, top |-> "", monthly |-> <<>>]

NoRoundTrip == [phase |-> 0, expect |-> <<>>]

\* before main() runs: the store is whatever file is there, no tracker yet
Init ==
  /\ store \in InitStores
  /\ df = <<>>
  /\ pc = "new"
  /\ out = Out("none", "")
  /\ rt = NoRoundTrip

\* ------------------------------------------------------------- load_data

\* a load that writes the cleaned frame back to the file
StoreAfterLoadWritesBack(old, frame) == File(ToCsv(frame))

\* the store after load_data: read_csv only reads, nothing is written
StoreAfterLoad(old, frame) == old

\* ExpenseTracker.__init__ and load_data, at the start of main(); only
\* FileNotFoundError is caught, anything else ends the program
LoadData ==
  /\ pc = "new"
  /\ \/ /\ ~store.exists
        /\ df' = <<>>
        /\ pc' = "shown"
        /\ out' = Out("load", "File not found. Starting with empty data.")
     \/ /\ store.exists
        /\ ~LoadRaises(store.rows)
        /\ df' = LoadedFrame(store.rows)
        /\ pc' = "shown"
        /\ out' = [Out("load", IF Len(df') # Len(store.rows)
                                 THEN "Removed invalid rows" ELSE "")
                     EXCEPT !.removed = Len(store.rows) - Len(df')]
     \/ /\ store.exists
        /\ LoadRaises(store.rows)
        /\ df' = <<>>
        /\ pc' = "crashed"
        /\ out' = Out("load", "raised")
  /\ rt' = IF pc' = "shown"
             THEN IF rt.phase = 2 THEN [rt EXCEPT !.phase = 3]
                                  ELSE [phase |-> 1, expect |-> <<>>]
             ELSE NoRoundTrip
  /\ store' = StoreAfterLoad(store, df')

\* ------------------------------------------------------------ add_expense

MsgInvalid == "Error: Invalid date or amount"

MsgPositive == "Error: Amount must be positive"

MsgCategory == "Error: Category must be one of"

MsgAdded == "Expense added!"

MsgWriteFailed == "OSError"

\* a validation that forgets the category check
ValidateSkipsCategory(date, amount, category) ==
  IF DateRaises(date) \/ FloatRaises(amount) THEN MsgInvalid
  ELSE IF FloatLe(Float(amount), 0) THEN MsgPositive
  ELSE ""

\* a validation that checks the category before the sign of the amount
ValidateCategoryFirst(date, amount, category) ==
  IF DateRaises(date) \/ FloatRaises(amount) THEN MsgInvalid
  ELSE IF category \notin CategorySet THEN MsgCategory
  ELSE IF FloatLe(Float(amount), 0) THEN MsgPositive
  ELSE ""

\* the message add_expense prints when it rejects its input, "" when it accepts
Validate(date, amount, category) ==
  IF DateRaises(date) \/ FloatRaises(amount) THEN MsgInvalid
  ELSE IF FloatLe(Float(amount), 0) THEN MsgPositive
  ELSE IF category \notin CategorySet THEN MsgCategory
  ELSE ""

\* if not description: description = "No description"
Described(description) == IF description = "" THEN NoDescription ELSE description

\* new_expense, the one-row frame add_expense builds
NewExpense(date, amount, category, description) ==
  [Date        |-> ToDatetime(date),
   Amount      |-> Float(amount),
   Category    |-> category,
   Description |-> Described(description)]

\* pd.concat([self.df, new_expense], ignore_index=True)
Concat(frame, r) == Append(frame, r)

\* a write that appends the last record to the file as it is
RewriteAppendsInPlace(old, frame) ==
  File(Append(old.rows, CsvRow(frame[Len(frame)])))

\* self.df.to_csv(self.file_path, index=False): the whole file is rewritten
Rewrite(old, frame) == File(ToCsv(frame))

\* ExpenseTracker.add_expense; to_csv either writes the file or raises OSError
\* (disk full, no permission) and leaves it as it was
AddExpense(date, amount, category, description) ==
  /\ pc = "menu"
  /\ pc' = "shown"
  /\ IF Validate(date, amount, category) # ""
       THEN /\ out' = [Out("add", Validate(date, amount, category))
                         EXCEPT !.args = <<date, amount, category, description>>]
            /\ UNCHANGED <<df, store, rt>>
       ELSE /\ Len(df) < MaxRows
            /\ df' = Concat(df, NewExpense(date, amount, category, description))
            /\ \E written \in BOOLEAN :
                 IF written
                   THEN /\ store' = Rewrite(store, df')
                        /\ out' = [Out("add", MsgAdded)
                                     EXCEPT !.args = <<date, amount, category, description>>]
                        /\ rt' = IF rt.phase \in {1, 3}
                                   THEN [phase  |-> 2,
                                         expect |-> Append(df,
                                           NewExpense(date, amount, category, description))]
                                   ELSE NoRoundTrip
                   ELSE /\ store' = store
                        /\ out' = [Out("add", MsgWriteFailed)
                                     EXCEPT !.args = <<date, amount, category, description>>]
                        /\ rt' = NoRoundTrip

\* ----------------------------------------------------------- aggregation

RECURSIVE SumAmount(_)
\* Series.sum(): the sum of the amounts, missing values skipped
SumAmount(frame) ==
  IF frame = <<>> THEN 0
  ELSE (IF Head(frame).Amount = NaN THEN 0 ELSE Head(frame).Amount)
       + SumAmount(Tail(frame))

\* Series.count(): how many amounts are not missing
CountAmount(frame) ==
  LET Present(r) == r.Amount # NaN IN Len(SelectSeq(frame, Present))

\* the keys of groupby('Category'), in the order groupby sorts them
CategoryOrder == <<"Entertainment", "Food", "Transport", "Utilities">>

\* df.groupby('Category')['Amount'].sum(): one entry per category present,
\* in sorted key order
CategoryTotals(frame) ==
  LET InFrame(c) == \E i \in 1..Len(frame) : frame[i].Category = c
      keys == SelectSeq(CategoryOrder, InFrame)
  IN  [k \in 1..Len(keys) |->
         LET Of(r) == r.Category = keys[k]
         IN  [Category |-> keys[k], Amount |-> SumAmount(SelectSeq(frame, Of))]]

\* an index of the maximum that keeps the last of equal entries
IdxMaxLast(series) ==
  LET best[i \in 1..Len(series)] ==
        IF i = 1 THEN 1
        ELSE IF series[i].Amount >= series[best[i - 1]].Amount THEN i
        ELSE best[i - 1]
  IN  series[best[Len(series)]].Category

\* Series.idxmax(): the label of the first entry holding the maximum
IdxMax(series) ==
  LET best[i \in 1..Len(series)] ==
        IF i = 1 THEN 1
        ELSE IF series[i].Amount > series[best[i - 1]].Amount THEN i
        ELSE best[i - 1]
  IN  series[best[Len(series)]].Category

RECURSIVE SortedSeq(_)
\* a set of integers as an ascending sequence
SortedSeq(S) ==
  IF S = {} THEN <<>>
  ELSE LET m == CHOOSE x \in S : \A y \in S : x <= y
       IN  <<m>> \o SortedSeq(S \ {m})

\* Date.dt.to_period('M'): year and month
Period(d) == d \div 100

\* df.groupby(Date.dt.to_period('M'))['Amount'].sum(): one entry per month
\* present, ascending; records without a date belong to no group
MonthlyTotals(frame) ==
  LET months == SortedSeq({Period(frame[i].Date) :
                             i \in {j \in 1..Len(frame) : frame[j].Date # NaT}})
  IN  [k \in 1..Len(months) |->
         LET Of(r) == r.Date # NaT /\ Period(r.Date) = months[k]
         IN  [Month |-> months[k], Amount |-> SumAmount(SelectSeq(frame, Of))]]

\* ExpenseTracker.get_summary
GetSummary ==
  /\ pc = "menu"
  /\ pc' = "shown"
  /\ out' = IF df = <<>> THEN Out("summary", "No expenses recorded.")
            ELSE [Out("summary", "Expense Summary:")
                    EXCEPT !.total = SumAmount(df),
                           !.mean = <<SumAmount(df), CountAmount(df)>>,
                           !.cats = CategoryTotals(df)]
  /\ UNCHANGED <<df, store, rt>>

\* ExpenseTracker.generate_report
GenerateReport ==
  /\ pc = "menu"
  /\ pc' = "shown"
  /\ out' = IF df = <<>> THEN Out("report", "No expenses to report.")
            ELSE [Out("report", "Expense Report")
                    EXCEPT !.total = SumAmount(df),
                           !.top = IdxMax(CategoryTotals(df)),
                           !.monthly = MonthlyTotals(df)]
  /\ UNCHANGED <<df, store, rt>>

\* ExpenseTracker.visualize_expenses: the charts are drawn from the category
\* totals, the monthly totals and the amounts; the image is another file
VisualizeExpenses ==
  /\ pc = "menu"
  /\ pc' = "shown"
  /\ out' = IF df = <<>> THEN Out("charts", "No data to visualize.")
            ELSE [Out("charts", "Charts saved as expense_dashboard.png")
                    EXCEPT !.cats = CategoryTotals(df),
                           !.monthly = MonthlyTotals(df)]
  /\ UNCHANGED <<df, store, rt>>

\* --------------------------------------------------------- filter_expenses

\* if category: filtered_df[filtered_df['Category'] == category]
ByCategory(frame, category) ==
  LET Keep(r) == r.Category = category
  IN  IF category = "" THEN frame ELSE SelectSeq(frame, Keep)

\* a start bound that leaves out the start date itself
ByStartExclusive(frame, start_date) ==
  LET Keep(r) == r.Date # NaT /\ r.Date > ToDatetime(start_date)
  IN  IF start_date = "" THEN frame ELSE SelectSeq(frame, Keep)

\* if start_date: filtered_df[filtered_df['Date'] >= start]
ByStart(frame, start_date) ==
  LET Keep(r) == DateGe(r.Date, ToDatetime(start_date))
  IN  IF start_date = "" THEN frame ELSE SelectSeq(frame, Keep)

\* if end_date: filtered_df[filtered_df['Date'] <= end]
ByEnd(frame, end_date) ==
  LET Keep(r) == DateLe(r.Date, ToDatetime(end_date))
  IN  IF end_date = "" THEN frame ELSE SelectSeq(frame, Keep)

\* if min_amount: filtered_df[filtered_df['Amount'] >= min_amt]
ByMin(frame, min_amount) ==
  LET Keep(r) == FloatGe(r.Amount, Float(min_amount))
  IN  IF min_amount = "" THEN frame ELSE SelectSeq(frame, Keep)

\* the message of the first bound that does not parse, "" when all parse
FilterError(start_date, end_date, min_amount) ==
  IF start_date # "" /\ DateRaises(start_date) THEN "Error: Invalid start date"
  ELSE IF end_date # "" /\ DateRaises(end_date) THEN "Error: Invalid end date"
  ELSE IF min_amount # "" /\ FloatRaises(min_amount)
    THEN "Error: Invalid minimum amount"
  ELSE ""

\* ExpenseTracker.filter_expenses
FilterExpenses(category, start_date, end_date, min_amount) ==
  /\ pc = "menu"
  /\ pc' = "shown"
  /\ out' =
       [ (IF FilterError(start_date, end_date, min_amount) # ""
            THEN Out("filter", FilterError(start_date, end_date, min_amount))
            ELSE LET filtered_df ==
                       ByMin(ByEnd(ByStart(ByCategory(df, category), start_date),
                                   end_date), min_amount)
                 IN  IF filtered_df = <<>> THEN Out("filter", "No expenses found.")
                     ELSE [Out("filter", "") EXCEPT !.rows = filtered_df])
         EXCEPT !.args = <<category, start_date, end_date, min_amount>> ]
  /\ UNCHANGED <<df, store, rt>>

\* ------------------------------------------------------------------ main

\* the while loop of main(): back to the menu, the last output scrolls away
Menu ==
  /\ pc = "shown"
  /\ pc' = "menu"
  /\ out' = Out("none", "")
  /\ UNCHANGED <<df, store, rt>>

\* choice 6: the program ends, and with it the in-memory ledger; the store
\* stays, and the program may be started again
Exit ==
  /\ pc = "menu"
  /\ pc' = "new"
  /\ df' = <<>>
  /\ out' = Out("exit", "Exiting program...")
  /\ UNCHANGED <<store, rt>>

\* main(), with the user's input drawn from the given sets
Main(dates, amounts, cats, descriptions, fcats, fstarts, fends, fmins) ==
  \/ LoadData
  \/ Menu
  \/ \E date \in dates, amount \in amounts,
        category \in cats, description \in descriptions :
       AddExpense(date, amount, category, description)
  \/ GetSummary
  \/ \E category \in fcats, start_date \in fstarts,
        end_date \in fends, min_amount \in fmins :
       FilterExpenses(category, start_date, end_date, min_amount)
  \/ GenerateReport
  \/ VisualizeExpenses
  \/ Exit

Next ==
  Main(DateInputs, AmountInputs, CategoryInputs, DescriptionInputs,
       CategoryFilters, StartFilters, EndFilters, MinFilters)

\* runs that exercise admission to the ledger and its persistence
Spec == Init /\ [][Next]_vars

NextQuery ==
  Main(QDateInputs, QAmountInputs, QCategoryInputs, QDescriptionInputs,
       QCategoryFilters, QStartFilters, QEndFilters, QMinFilters)

\* runs that exercise filtering and reporting
SpecQuery == Init /\ [][NextQuery]_vars

\* ------------------------------------------------------------- properties

\* the last operation was an add_expense that passed validation
Accepted == out.op = "add" /\ out.msg \in {MsgAdded, MsgWriteFailed}

\* the last operation was an add_expense that was rejected
Rejected == out.op = "add" /\ out.msg \in {MsgInvalid, MsgPositive, MsgCategory}

\* C1: every record of the in-memory ledger has amount > 0, a category of the
\* fixed set and a date that is a valid calendar date.
C1_RecordsValid ==
  \A i \in 1..Len(df) :
    /\ df[i].Amount # NaN /\ df[i].Amount > 0
    /\ df[i].Category \in {"Food", "Transport", "Utilities", "Entertainment"}
    /\ df[i].Date # NaT

\* the rule the specification names for the first check of add_expense that
\* fails, "None" when every check passes
FirstFailingRule(a) ==
  IF a[1] \notin {"2024-01-15", "2024-02-10", ""} THEN "InvalidDate"
  ELSE IF a[2] \notin {"10", "10.0", "20", "20.0", "0", "-5", "-5.0", "nan"}
    THEN "InvalidAmount"
  ELSE IF a[2] \in {"0", "-5", "-5.0"} THEN "NonPositiveAmount"
  ELSE IF a[3] \notin {"Food", "Transport", "Utilities", "Entertainment"}
    THEN "UnknownCategory"
  ELSE "None"

\* one of the rules add_expense tests fails for these arguments
SomeRuleFails(a) == FirstFailingRule(a) # "None"

\* C2: an add_expense either adds exactly one new record to the ledger or,
\* when a validation rule fails, leaves the ledger and the store as they were.
C2_AddOneOrNothing ==
  [][out'.op = "add" =>
       IF SomeRuleFails(out'.args)
         THEN df' = df /\ store' = store
         ELSE Len(df') = Len(df) + 1 /\ SubSeq(df', 1, Len(df)) = df]_vars

\* C2 witness: an add_expense was rejected while the ledger and the store
\* held a record.
C2_Witness ==
  /\ out.op = "add" /\ out.msg = MsgCategory
  /\ Len(df) > 0 /\ store.exists /\ Len(store.rows) > 0

\* C3: after a successful add_expense the ledger is the previous ledger with
\* the new record at the end, and the store holds exactly the rows of the
\* updated ledger, in order.
C3_AppendAndRewrite ==
  [][(out'.op = "add" /\ out'.msg = MsgAdded) =>
       /\ Len(df') = Len(df) + 1
       /\ SubSeq(df', 1, Len(df)) = df
       /\ df'[Len(df')].Category = out'.args[3]
       /\ df'[Len(df')].Date = ToDatetime(out'.args[1])
       /\ df'[Len(df')].Amount = Float(out'.args[2])
       /\ store'.exists
       /\ Len(store'.rows) = Len(df')
       /\ \A i \in 1..Len(df') : store'.rows[i] = CsvRow(df'[i])]_vars

\* C3 witness: a successful add_expense onto a ledger that held a record.
C3_Witness ==
  out.op = "add" /\ out.msg = MsgAdded /\ Len(df) = 2 /\ Len(store.rows) = 2

\* C4: an append is all or nothing, its store rewrite included: after
\* add_expense returns or fails, the new record is in the ledger and in the
\* store, or in neither and both are unchanged.
C4_AppendAtomic ==
  [][out'.op = "add" =>
       \/ df' = df /\ store' = store
       \/ /\ Len(df') = Len(df) + 1
          /\ store'.exists
          /\ Len(store'.rows) = Len(df')
          /\ store'.rows[Len(df')] = CsvRow(df'[Len(df')])]_vars

\* C5: load, one add_expense of a valid record, load again: the ledger is the
\* records of the first load followed by the new record, with equal field
\* values.
C5_RoundTrip ==
  LET new == rt.expect[Len(rt.expect)]
  IN  (/\ rt.phase = 3
       /\ new.Date # NaT /\ new.Amount # NaN /\ new.Amount > 0
       /\ new.Category \in {"Food", "Transport", "Utilities", "Entertainment"})
      => df = rt.expect

\* the record satisfies every filter argument that was supplied
Matches(r, a) ==
  /\ a[1] = "" \/ r.Category = a[1]
  /\ a[2] = "" \/ (r.Date # NaT /\ ToDatetime(a[2]) # NaT /\ r.Date >= ToDatetime(a[2]))
  /\ a[3] = "" \/ (r.Date # NaT /\ ToDatetime(a[3]) # NaT /\ r.Date <= ToDatetime(a[3]))
  /\ a[4] = "" \/ (r.Amount # NaN /\ Float(a[4]) # NaN /\ r.Amount >= Float(a[4]))

\* every supplied filter bound parses
Parseable(a) ==
  /\ a[2] \in {"", "2024-01-15", "2024-02-10"}
  /\ a[3] \in {"", "2024-01-15", "2024-02-10"}
  /\ a[4] \in {"", "10", "20"}

\* C6: with parseable arguments filter_expenses selects exactly the records
\* that satisfy every supplied predicate, in their original order.
C6_FilterExact ==
  (out.op = "filter" /\ Parseable(out.args)) =>
    LET Keep(r) == Matches(r, out.args)
    IN  /\ out.rows = SelectSeq(df, Keep)
        /\ out.msg = IF out.rows = <<>> THEN "No expenses found." ELSE ""

\* C6 witness: all four arguments supplied, and one record of two selected.
C6_Witness ==
  /\ out.op = "filter"
  /\ \A k \in 1..4 : out.args[k] # ""
  /\ Len(df) = 2 /\ Len(out.rows) = 1

\* the rule a printed message identifies
RuleOfMessage(msg) ==
  CASE msg = MsgPositive -> "NonPositiveAmount"
    [] msg = MsgCategory -> "UnknownCategory"
    [] msg = MsgInvalid  -> "InvalidDateOrAmount"
    [] OTHER             -> "None"

\* C7 as claimed: a rejected add_expense reports the first failing rule, with
\* an unparseable date and an unparseable amount told apart.
C7_TypedFailure ==
  Rejected => RuleOfMessage(out.msg) = FirstFailingRule(out.args)

\* C7 as amended: a rejected add_expense reports the first failing check in
\* the order (unparseable date or amount, one message for both), amount <= 0,
\* unknown category.
C7_FirstFailingCheck ==
  out.op = "add" =>
    LET rule == FirstFailingRule(out.args)
    IN  /\ rule \in {"InvalidDate", "InvalidAmount"} => out.msg = MsgInvalid
        /\ rule = "NonPositiveAmount" => out.msg = MsgPositive
        /\ rule = "UnknownCategory" => out.msg = MsgCategory
        /\ rule = "None" => out.msg \in {MsgAdded, MsgWriteFailed}

\* C7 witness: an input with amount <= 0 and an unknown category was rejected.
C7_Witness ==
  /\ Rejected
  /\ out.args[2] = "0"
  /\ out.args[3] = "Pets"

\* C8: an accepted add_expense stores "No description" for an empty or
\* whitespace-only description, and the supplied description otherwise.
C8_BlankDescription ==
  Accepted =>
    df[Len(df)].Description =
      IF out.args[4] \in {"", " "} THEN "No description" ELSE out.args[4]

\* C9: generate_report names a category whose sum is the largest, the first
\* such in the category-sum ordering; an empty ledger gives nothing to report.
C9_TopCategory ==
  out.op = "report" =>
    IF df = <<>> THEN out.msg = "No expenses to report." /\ out.top = ""
    ELSE LET sums == CategoryTotals(df)
         IN  \E k \in 1..Len(sums) :
               /\ out.top = sums[k].Category
               /\ \A j \in 1..Len(sums) : sums[j].Amount <= sums[k].Amount
               /\ \A j \in 1..(k - 1) : sums[j].Amount < sums[k].Amount

\* C9 witness: a report on a ledger whose two categories tie, the later
\* category of the ordering entered first.
C9_Witness ==
  /\ out.op = "report"
  /\ Len(df) = 2
  /\ df[1].Category = "Transport" /\ df[2].Category = "Food"
  /\ df[1].Amount = df[2].Amount

\* C10: the store changes only at a successful add_expense; get_summary,
\* filter_expenses, generate_report and visualize_expenses leave the ledger and
\* the store unchanged, and load_data does not write the store.
C10_OnlyAddWrites ==
  [][/\ store' # store => (out'.op = "add" /\ out'.msg = MsgAdded)
     /\ out'.op \in {"summary", "filter", "report", "charts"} =>
          (df' = df /\ store' = store)
     /\ out'.op = "load" => store' = store]_vars

\* C10 witness: a filter with an unparseable bound ran on a ledger whose
\* store had lost rows at load.
C10_Witness ==
  /\ out.op = "filter" /\ out.msg = "Error: Invalid end date"
  /\ store.exists /\ Len(df) < Len(store.rows)

====
